---------------------------- MODULE Spec2Model ----------------------------
(***************************************************************************)
(* Shot planning of the CurlFighter players (CurlFighter00, CurlFighter01, *)
(* CurlFighter02): board ranking, candidate generation, velocity model,    *)
(* simulated scoring, shot selection and the polling turn loop.            *)
(*                                                                         *)
(* Units.  Lengths are integers in millimetres, speeds in mm/s, so that    *)
(* TEE = (0.0, 38.405) is <<0, 38405>>.  A Position is a pair <<x, y>>;    *)
(* Python's None and the simulator's not-a-number pair are both the empty  *)
(* tuple.  math.inf is the sentinel Inf, larger than every distance.       *)
(***************************************************************************)
EXTENDS Integers, Sequences, FiniteSets

VARIABLES
    pc,          \* position of the modelled program
    variant,     \* which player runs: 0, 1 or 2 (CurlFighter00/01/02)
    my_team,     \* "team0" or "team1", cli.get_my_team()
    state,       \* the State handed to decide: [stones, shot]
    sorted_refs, \* decide's local sorted_refs
    candidates,  \* decide's local candidates (CurlFighter02)
    ci,          \* index of the next candidate of the for loop
    best,        \* decide's local best: None or <<vx, vy, rotation>>
    best_score,  \* decide's local best_score
    evals,       \* what evaluate_shot returned and saw, per candidate so far
    poll,        \* what the last cli.update() reported: [winner, next_team]
    polls,       \* number of cli.update() calls made
    moved,       \* the shot counters cli.move() was called for, in order
    last_move,   \* None, or what decide returned in this iteration and for which state
    sim_result,  \* the array the simulator returned (scoring)
    score,       \* evaluate_shot's score for sim_result
    v_in,        \* arguments of estimate_shot_velocity_fcv1
    v_out        \* its outcome: [kind |-> "ok", v |-> <<vx, vy>>] or an error

vars == <<pc, variant, my_team, state, sorted_refs, candidates, ci, best,
          best_score, evals, poll, polls, moved, last_move, sim_result, score,
          v_in, v_out>>

---------------------------------------------------------------------------
(* Geometry constants, shared by the three players.                        *)

None == << >>
NaN == << >>
TEE == <<0, 38405>>
BACK == <<0, 40234>>
FRONT == <<0, 36576>>
HOUSE_RADIUS == 915
STONE_RADIUS == 145
NumTeams == 2
NumStones == 8
Inf == 1000000000
NegInf == -Inf

counterclockwise == "counterclockwise"
clockwise == "clockwise"

CENTER_SHOT == <<132, 2400, counterclockwise>>
GUARD_SHOT == <<128, 2333, counterclockwise>>

(* floor of the square root, by Newton's iteration                         *)
RECURSIVE IsqrtIter(_, _)
IsqrtIter(n, x) ==
    LET y == (x + n \div x) \div 2
    IN  IF y >= x THEN x ELSE IsqrtIter(n, y)

Isqrt(n) == IF n <= 0 THEN 0 ELSE IsqrtIter(n, n)

(* math.hypot, to the millimetre                                           *)
Hypot(dx, dy) == Isqrt(dx * dx + dy * dy)

---------------------------------------------------------------------------
(* Board snapshot.  stones = [team0 |-> list, team1 |-> list]; a list      *)
(* entry is a Coordinate [null, position]: null for Python's None, and     *)
(* position a list of points [x, y] whose components are <<v>> or, for     *)
(* None, << >>.                                                            *)

NullCoord == [null |-> TRUE, position |-> << >>]
EmptyCoord == [null |-> FALSE, position |-> << >>]
At(x, y) == [null |-> FALSE, position |-> << [x |-> <<x>>, y |-> <<y>>] >>]
HalfPoint(y) == [null |-> FALSE, position |-> << [x |-> << >>, y |-> <<y>>] >>]

get_stone_position(stones, team, idx) ==
    LET coord_list == IF team = 0 THEN stones.team0 ELSE stones.team1
    IN  IF idx >= Len(coord_list) THEN None
        ELSE LET coord == coord_list[idx + 1]
             IN  IF coord.null \/ coord.position = << >> THEN None
                 ELSE LET pos == coord.position[1]
                      IN  IF pos.x = << >> \/ pos.y = << >> THEN None
                          ELSE <<pos.x[1], pos.y[1]>>

StoneRef(team, idx, distance) ==
    [team |-> team, idx |-> idx, distance |-> distance]

(* list.sort(key=distance) is stable: an element goes after every element  *)
(* already placed whose key is not larger.                                 *)
RECURSIVE InsertUnstable(_, _)
InsertUnstable(sorted, r) ==
    IF sorted = << >> THEN <<r>>
    ELSE IF r.distance <= Head(sorted).distance THEN <<r>> \o sorted
         ELSE <<Head(sorted)>> \o InsertUnstable(Tail(sorted), r)

RECURSIVE InsertStable(_, _)
InsertStable(sorted, r) ==
    IF sorted = << >> THEN <<r>>
    ELSE IF r.distance < Head(sorted).distance THEN <<r>> \o sorted
         ELSE <<Head(sorted)>> \o InsertStable(Tail(sorted), r)

RECURSIVE SortByDistance(_, _)
SortByDistance(done, todo) ==
    IF todo = << >> THEN done
    ELSE SortByDistance(InsertStable(done, Head(todo)), Tail(todo))

(* refs in enumeration order: team 0 idx 0..7, then team 1 idx 0..7        *)
EnumerateRefs(stones) ==
    [k \in 1..(NumTeams * NumStones) |->
        LET team == (k - 1) \div NumStones
            idx == (k - 1) % NumStones
            pos == get_stone_position(stones, team, idx)
            dist == IF pos = None THEN Inf
                    ELSE Hypot(pos[1] - TEE[1], pos[2] - TEE[2])
        IN  StoneRef(team, idx, dist)]

sort_stones_by_distance(stones) ==
    SortByDistance(<< >>, EnumerateRefs(stones))

---------------------------------------------------------------------------
(* Fixed-point arithmetic.  TLC's integers are 32 bits wide, so a product  *)
(* of two scaled numbers is taken in parts.                                *)

(* a * b / u for b >= 0, without forming a * b                             *)
MulScaled(a, b, u) ==
    a * (b \div u) + (a \div u) * (b % u) + ((a % u) * (b % u)) \div u

(* a * b / 10^6 for |a| <= 2 * 10^6 and |b| <= 10^6                        *)
Mul6(a, b) == (a * (b \div 1000) + (a * (b % 1000)) \div 1000) \div 1000

(* 10^6 * a / b for |a| <= 2 * 10^5 and b > 0, by long division            *)
Div6(a, b) == ((a * 10000) \div b) * 100 + (((a * 10000) % b) * 100) \div b

(* math.log of x_mm / 1000, in units of 10^-4: the argument is brought     *)
(* into [1, 2) by halving or doubling, then ln y = 2 atanh((y-1)/(y+1)).   *)
RECURSIVE LnReduce(_, _)
LnReduce(x6, k) ==
    IF x6 >= 2000000 THEN LnReduce(x6 \div 2, k + 1)
    ELSE IF x6 < 1000000 THEN LnReduce(x6 * 2, k - 1)
         ELSE <<x6, k>>

Ln4(x_mm) ==
    LET red == LnReduce(x_mm * 1000, 0)
        y6 == red[1]
        z == (((y6 - 1000000) \div 100) * 10000) \div ((y6 + 1000000) \div 100)
        z2 == (z * z) \div 10000
        z3 == (z * z2) \div 10000
        z5 == (z3 * z2) \div 10000
        z7 == (z5 * z2) \div 10000
        z9 == (z7 * z2) \div 10000
        atanh == z + z3 \div 3 + z5 \div 5 + z7 \div 7 + z9 \div 9
    IN  (red[2] * 693147) \div 100 + 2 * atanh

---------------------------------------------------------------------------
(* Velocity model of CurlFighter00: regression tables.  kC0 and kC1 are in *)
(* units of 10^-9 (kC1[2], the offset inside the logarithm, in mm), kC2 in *)
(* units of 10^-6; the regime is chosen by target_speed.                   *)

Regime(target_speed) ==
    IF target_speed <= 50 THEN 1
    ELSE IF target_speed <= 1000 THEN 2 ELSE 3

kC0(regime) ==
    CASE regime = 1 -> <<504812, 275624253>>
      [] regime = 2 -> <<-1430917, 985845790>>
      [] regime = 3 -> <<1083, -121329, 4578093, 976700687>>

kC1(regime) ==
    CASE regime = 1 -> <<466696, -29899, -1403097>>
      [] regime = 2 -> <<-833933, -29868, -198118000>>
      [] regime = 3 -> <<79506482, -8228, -56013061>>

kC2(regime) ==
    CASE regime = 1 -> <<139687, 411209>>
      [] regime = 2 -> <<139673, 428163>>
      [] regime = 3 -> <<141404, 387578>>

(* sum(coef * x ** i for i, coef in enumerate(reversed(a))), by Horner's   *)
(* rule; x in mm, the coefficients and the result in units of 10^-9        *)
RECURSIVE poly_from(_, _, _)
poly_from(acc, a, x) ==
    IF a = << >> THEN acc
    ELSE poly_from(MulScaled(acc, x, 1000) + Head(a), Tail(a), x)

poly(a, x) == poly_from(Head(a), Tail(a), x)

c0(regime, r) == poly(kC0(regime), r)

c1(regime, r) ==
    -MulScaled(kC1(regime)[1], Ln4(r + kC1(regime)[2]), 10000) + kC1(regime)[3]

c2(regime, r) == MulScaled(kC2(regime)[1], r, 1000) + kC2(regime)[2]

(* c0 * s^2 + c1 * s + c2 in units of 10^-6 (m/s)^2                        *)
V0Squared(regime, r, s) ==
    MulScaled(MulScaled(c0(regime, r) \div 1000, s, 1000), s, 1000)
    + MulScaled(c1(regime, r) \div 1000, s, 1000)
    + c2(regime, r)

Ok(vx, vy) == [kind |-> "ok", v |-> <<vx, vy>>]
Raised(kind) == [kind |-> kind, v |-> << >>]

(* v0_mag * (cos, sin)(atan2(y, x) + delta_angle), delta_angle =           *)
(* rotation_factor * 0.25 / target_r; angles' sines and cosines in 10^-6   *)
Launch00(target, target_r, v0_mag, rotation) ==
    LET rotation_factor == IF rotation = counterclockwise THEN 1 ELSE -1
        delta == 250000000 \div target_r
        d2 == ((delta \div 100) * (delta \div 100)) \div 100
        cosD == 1000000 - d2 \div 2
        sinD == rotation_factor * (delta - ((d2 * delta) \div 1000000) \div 6)
        cosA == Div6(target[1], target_r)
        sinA == Div6(target[2], target_r)
        cosV == Mul6(cosA, cosD) - Mul6(sinA, sinD)
        sinV == Mul6(sinA, cosD) + Mul6(cosA, sinD)
    IN  Ok(Mul6(cosV, v0_mag), Mul6(sinV, v0_mag))

estimate_shot_velocity_fcv1_00(target, target_speed, rotation) ==
    LET target_r == Hypot(target[1], target[2])
        regime == Regime(target_speed)
    IN  IF ~(0 <= target_speed /\ target_speed <= 4000)
        THEN Raised("AssertionError")
        ELSE IF ~(target_r > 0) THEN Raised("AssertionError")
        ELSE IF target_r + kC1(regime)[2] <= 0 THEN Raised("ValueError")
        ELSE LET v0sq == V0Squared(regime, target_r, target_speed)
                 v0_mag == Isqrt(v0sq)
             IN  IF v0sq < 0 THEN Raised("ValueError")
                 ELSE IF ~(target_speed < v0_mag)
                      THEN Raised("AssertionError")
                      ELSE Launch00(target, target_r, v0_mag, rotation)

(* CurlFighter01: both range checks, then the call of the simulator        *)
(* module reads the name rot_sign, which nothing defines: NameError.       *)
estimate_shot_velocity_fcv1_01(target, target_speed, rotation) ==
    IF ~(0 <= target_speed /\ target_speed <= 4000)
    THEN Raised("AssertionError")
    ELSE Raised("NameError")

(* CurlFighter02: angle = atan2(target.y - 2.4, target.x), then            *)
(* (cos(angle), sin(angle)) * target_speed; atan2(0, 0) is 0.              *)
estimate_shot_velocity_fcv1_02(target, target_speed, rotation) ==
    LET dx == target[1]
        dy == target[2] - 2400
        h == Hypot(dx, dy)
        cosA == IF h = 0 THEN 1000000 ELSE Div6(dx, h)
        sinA == IF h = 0 THEN 0 ELSE Div6(dy, h)
    IN  Ok(Mul6(cosA, target_speed), Mul6(sinA, target_speed))

estimate_shot_velocity_fcv1(v, target, target_speed, rotation) ==
    CASE v = 0 -> estimate_shot_velocity_fcv1_00(target, target_speed, rotation)
      [] v = 1 -> estimate_shot_velocity_fcv1_01(target, target_speed, rotation)
      [] v = 2 -> estimate_shot_velocity_fcv1_02(target, target_speed, rotation)

---------------------------------------------------------------------------
(* CurlFighter02: simulated evaluation of a candidate and the selection.   *)

TeamIdx(team) == IF team = "team0" THEN 0 ELSE 1

(* math.hypot(x - TEE.x, y - TEE.y) <= HOUSE_RADIUS; every comparison with *)
(* not-a-number is false                                                   *)
InHouseStrict(p) ==
    p # NaN /\ Hypot(p[1] - TEE[1], p[2] - TEE[2]) < HOUSE_RADIUS

InHouse(p) ==
    p # NaN /\ Hypot(p[1] - TEE[1], p[2] - TEE[2]) <= HOUSE_RADIUS

(* the scoring loop over team_idx in (0, 1), i in range(8), from entry k   *)
RECURSIVE ScoreFrom(_, _, _, _)
ScoreFrom(result, my_team_idx, k, acc) ==
    IF k > NumTeams * NumStones THEN acc
    ELSE LET team_idx == (k - 1) \div NumStones
             step == IF InHouse(result[k])
                     THEN (IF team_idx = my_team_idx THEN 1 ELSE -1)
                     ELSE 0
         IN  ScoreFrom(result, my_team_idx, k + 1, acc + step)

(* evaluate_shot, given what stone_simulator.simulator returned: the flag  *)
(* is bound and not read again.                                            *)
evaluate_shot(st, my_team_idx, target, speed, rotation, sim) ==
    LET vel == estimate_shot_velocity_fcv1_02(target, speed, rotation)
    IN  [vx |-> vel.v[1], vy |-> vel.v[2], rotation |-> rotation,
         score |-> ScoreFrom(sim.result, my_team_idx, 1, 0)]

InHouseRefs(refs) ==
    SelectSeq(refs, LAMBDA r : r.distance < HOUSE_RADIUS + STONE_RADIUS)

EmptyBoardList ==
    << <<TEE, 2500, counterclockwise>>,
       <<TEE, 4000, counterclockwise>>,
       <<FRONT, 2500, counterclockwise>> >>

GuardList ==
    << <<FRONT, 2500, counterclockwise>>,
       <<BACK, 2500, counterclockwise>>,
       <<BACK, 3000, counterclockwise>> >>

TakeoutList ==
    << <<TEE, 4000, counterclockwise>>,
       <<TEE, 4000, clockwise>>,
       <<TEE, 3500, counterclockwise>> >>

CandidatesOwnFirst(refs, my_team_idx) ==
    IF refs[1].team = my_team_idx THEN GuardList
    ELSE IF InHouseRefs(refs) = << >> THEN EmptyBoardList
         ELSE TakeoutList

Candidates(refs, my_team_idx) ==
    IF InHouseRefs(refs) = << >> THEN EmptyBoardList
    ELSE IF refs[1].team = my_team_idx THEN GuardList
         ELSE TakeoutList

InitialBestScorePlus == Inf

InitialBestScore == NegInf

(* if sc > best_score: best_score = sc; best = (vx, vy, r)                 *)
BetterOrEqual(sc, bs) == sc >= bs

Better(sc, bs) == sc > bs

Select(cur, ev) ==
    IF Better(ev.score, cur.best_score)
    THEN [best |-> <<ev.vx, ev.vy, ev.rotation>>, best_score |-> ev.score]
    ELSE cur

---------------------------------------------------------------------------
(* ThinkingAI.decide of CurlFighter00 and CurlFighter01.                   *)

Returned(move) == [kind |-> "ok", move |-> move]

opponent_leading_any(top, my_team_idx) ==
    top.distance < HOUSE_RADIUS + STONE_RADIUS

(* in_house and top.team != my_team_idx                                    *)
opponent_leading(top, my_team_idx) ==
    top.distance < HOUSE_RADIUS + STONE_RADIUS /\ top.team # my_team_idx

decide00(st, team) ==
    LET refs == sort_stones_by_distance(st.stones)
        top == refs[1]
        target_pos == get_stone_position(st.stones, top.team, top.idx)
        vel == estimate_shot_velocity_fcv1_00(target_pos, 3000, clockwise)
    IN  IF opponent_leading(top, TeamIdx(team)) /\ target_pos # None
        THEN (IF vel.kind = "ok"
              THEN Returned(<<vel.v[1], vel.v[2], clockwise>>)
              ELSE [kind |-> vel.kind, move |-> None])
        ELSE IF st.shot % 2 = 0 THEN Returned(CENTER_SHOT)
             ELSE Returned(GUARD_SHOT)

decide01(st, team) ==
    LET refs == sort_stones_by_distance(st.stones)
        top == refs[1]
    IN  IF InHouseRefs(refs) = << >> THEN Returned(CENTER_SHOT)
        ELSE IF top.team = TeamIdx(team) THEN Returned(GUARD_SHOT)
             ELSE Returned(CENTER_SHOT)

---------------------------------------------------------------------------
(* Bounds of the model and the inputs drawn within them.                   *)

MaxThrown == 2   \* decide: stones thrown so far, which may be in play
SimThrown == 2   \* decide: stones the simulator may leave in the house
SortThrown == 3  \* sorting: stones thrown so far
ScoreThrown == 3 \* scoring: stones the simulator may leave at rest
MaxPolls == 3    \* turn loop: calls of cli.update()
MaxShot == 1     \* turn loop: largest shot counter of a snapshot

Teams == {"team0", "team1"}
Rotations == {counterclockwise, clockwise}
Slots == 1..(NumTeams * NumStones)

(* the teams throw in turn: the j-th stone thrown is stone (j-1) \div 2 of *)
(* team (j-1) % 2; its place in the enumeration team 0, then team 1        *)
ThrowSlot(j) == ((j - 1) % NumTeams) * NumStones + (j - 1) \div NumTeams + 1

Thrown(n) == {ThrowSlot(j) : j \in 1..n}

(* snapshots in which the first n stones thrown have a Coordinate drawn    *)
(* from coords and the others an empty one                                 *)
Boards(n, coords) ==
    { [team0 |-> [i \in 1..NumStones |->
                    IF i \in Thrown(n) THEN f[i] ELSE EmptyCoord],
       team1 |-> [i \in 1..NumStones |->
                    IF NumStones + i \in Thrown(n) THEN f[NumStones + i]
                    ELSE EmptyCoord]] :
        f \in [Thrown(n) -> coords] }

(* simulator results: the first n stones thrown rest at one of points,     *)
(* every other entry is NaN                                                *)
SimResults(n, points) ==
    { [k \in Slots |-> IF k \in Thrown(n) THEN f[k] ELSE NaN] :
        f \in [Thrown(n) -> points] }

DecideCoords ==
    {EmptyCoord, At(0, 38405), At(1000, 38405), At(2000, 38405)}

DecideOutcomes ==
    [result : SimResults(SimThrown, {TEE, NaN}), flag : BOOLEAN]

IdleDecide ==
    /\ sorted_refs = << >> /\ candidates = << >> /\ ci = 0
    /\ best = None /\ best_score = 0 /\ evals = << >>

NoTeam == "none"

NoPoll == [winner |-> NoTeam, next_team |-> NoTeam]

IdleLoop == poll = NoPoll /\ polls = 0 /\ moved = << >> /\ last_move = None

IdleScore == sim_result = << >> /\ score = 0

IdleVel == v_in = << >> /\ v_out = << >>

---------------------------------------------------------------------------
(* One call of ThinkingAI.decide.  CurlFighter00 and CurlFighter01 decide  *)
(* in one step.  CurlFighter02: ranking and candidates, then one step per  *)
(* candidate of the for loop (each holds one call of the external          *)
(* simulator), then the return.                                            *)

Decide(v) ==
    /\ pc = "decide"
    /\ variant = v
    /\ LET d == IF v = 0 THEN decide00(state, my_team)
                ELSE decide01(state, my_team)
       IN  /\ pc' = IF d.kind = "ok" THEN "returned" ELSE "raised"
           /\ last_move' = [state |-> state, move |-> d.move]
    /\ UNCHANGED <<variant, my_team, state, sorted_refs, candidates, ci, best,
                   best_score, evals, poll, polls, moved, sim_result, score,
                   v_in, v_out>>

DecideStart ==
    /\ pc = "decide"
    /\ variant = 2
    /\ sorted_refs' = sort_stones_by_distance(state.stones)
    /\ candidates' = Candidates(sort_stones_by_distance(state.stones),
                                TeamIdx(my_team))
    /\ best' = None
    /\ best_score' = InitialBestScore
    /\ ci' = 1
    /\ evals' = << >>
    /\ pc' = "loop"
    /\ UNCHANGED <<variant, my_team, state, poll, polls, moved, last_move,
                   sim_result, score, v_in, v_out>>

Evaluate(track) ==
    /\ pc = "loop"
    /\ ci <= Len(candidates)
    /\ \E sim \in DecideOutcomes :
         LET c == candidates[ci]
             ev == evaluate_shot(state, TeamIdx(my_team), c[1], c[2], c[3], sim)
             nxt == Select([best |-> best, best_score |-> best_score], ev)
         IN  /\ best' = nxt.best
             /\ best_score' = nxt.best_score
             /\ evals' = IF track
                         THEN Append(evals, [score |-> ev.score,
                                             flag |-> sim.flag,
                                             shot |-> <<ev.vx, ev.vy, ev.rotation>>])
                         ELSE evals
    /\ ci' = ci + 1
    /\ UNCHANGED <<pc, variant, my_team, state, sorted_refs, candidates,
                   poll, polls, moved, last_move, sim_result, score, v_in, v_out>>

Return ==
    /\ pc = "loop"
    /\ ci > Len(candidates)
    /\ pc' = "returned"
    /\ last_move' = [state |-> state, move |-> best]
    /\ UNCHANGED <<variant, my_team, state, sorted_refs, candidates, ci, best,
                   best_score, evals, poll, poll, polls, moved, sim_result, score,
                   v_in, v_out>>

(* CurlFighter02 does not read the shot counter                            *)
Init ==
    /\ pc = "decide"
    /\ variant \in 0..2
    /\ my_team \in Teams
    /\ state \in [stones : Boards(MaxThrown, DecideCoords), shot : 0..MaxShot]
    /\ variant = 2 => state.shot = 0
    /\ IdleDecide /\ IdleLoop /\ IdleScore /\ IdleVel

Next ==
    \/ Decide(0)
    \/ Decide(1)
    \/ DecideStart
    \/ Evaluate(TRUE)
    \/ Return

Spec == Init /\ [][Next]_vars

---------------------------------------------------------------------------
(* Properties of decide (CurlFighter02), under Spec.                       *)

LoopDone ==
    /\ variant = 2
    /\ pc = "returned" \/ (pc = "loop" /\ ci > Len(candidates))

MaxScore(es) ==
    CHOOSE m \in {es[i].score : i \in 1..Len(es)} :
        \A i \in 1..Len(es) : es[i].score <= m

FirstMax(es) ==
    CHOOSE i \in 1..Len(es) :
        /\ es[i].score = MaxScore(es)
        /\ \A j \in 1..(i - 1) : es[j].score < MaxScore(es)

(* C1: once every candidate is evaluated, the shot kept is that of the     *)
(* earliest candidate, in generation order, whose score is the maximum of  *)
(* the list; a later candidate of equal score does not replace it.         *)
C1_FirstMaxSelected ==
    LoopDone =>
        /\ Len(evals) = Len(candidates)
        /\ Len(evals) > 0
        /\ best = evals[FirstMax(evals)].shot
        /\ best_score = MaxScore(evals)

C1_Witness ==
    /\ pc = "returned"
    /\ \E i, j \in 1..Len(evals) :
         /\ i < j
         /\ evals[i].score = MaxScore(evals)
         /\ evals[j].score = MaxScore(evals)
         /\ evals[i].shot # evals[j].shot
         /\ last_move.move = evals[i].shot

(* the board read directly, without the ranking                            *)
NoStoneInPlay(stones) ==
    \A team \in 0..(NumTeams - 1), idx \in 0..(NumStones - 1) :
        get_stone_position(stones, team, idx) = None

NoRefNearHouse(refs) ==
    \A k \in 1..Len(refs) :
        refs[k].distance >= HOUSE_RADIUS + STONE_RADIUS

(* C3: the candidate list is one of the three lists, non-empty and finite, *)
(* fixed by the ranking and the acting team: the empty-board list (first   *)
(* target the tee) when no ranked stone is closer to the tee than          *)
(* houseRadius + stoneRadius, in particular when no stone is in play;      *)
(* otherwise the guard list when the rank-0 stone is the acting team's,    *)
(* and the takeout list when it is the opponent's.                         *)
C3_CandidateBranches ==
    (variant = 2 /\ pc \in {"loop", "returned"}) =>
        /\ Len(candidates) \in 1..3
        /\ NoStoneInPlay(state.stones) => NoRefNearHouse(sorted_refs)
        /\ candidates =
             (IF NoRefNearHouse(sorted_refs) THEN EmptyBoardList
              ELSE IF sorted_refs[1].team = TeamIdx(my_team) THEN GuardList
              ELSE TakeoutList)
        /\ NoRefNearHouse(sorted_refs) => candidates[1][1] = TEE
        /\ Cardinality({EmptyBoardList, GuardList, TakeoutList}) = 3

C3_Witness ==
    /\ pc = "loop"
    /\ NoStoneInPlay(state.stones)
    /\ sorted_refs[1].team = TeamIdx(my_team)
    /\ candidates = EmptyBoardList

(* C5: a candidate whose simulation came back with validityFlag = false is *)
(* disqualified: its score is minus infinity, and once all candidates are  *)
(* evaluated it is not the one selected if some candidate was simulated    *)
(* successfully.                                                           *)
C5_InvalidSimulationDisqualified ==
    /\ \A i \in 1..Len(evals) : ~evals[i].flag => evals[i].score = NegInf
    /\ (LoopDone /\ \E j \in 1..Len(evals) : evals[j].flag) =>
          \E i \in 1..Len(evals) : evals[i].flag /\ best = evals[i].shot

(* C6: when every candidate of the turn came back with a failed            *)
(* simulation, decide still returns a well-formed shot (vx, vy, rotation), *)
(* never None.                                                             *)
WellFormedShot(m) ==
    /\ m # None
    /\ Len(m) = 3
    /\ m[1] \in Int /\ m[2] \in Int
    /\ m[3] \in Rotations

AllDisqualified ==
    /\ variant = 2
    /\ Len(evals) = Len(candidates)
    /\ \A i \in 1..Len(evals) : ~evals[i].flag

C6_ShotReturnedWhenAllFail ==
    (pc = "returned" /\ AllDisqualified) => WellFormedShot(last_move.move)

C6_Witness ==
    /\ pc = "returned"
    /\ AllDisqualified
    /\ Len(evals) = 3
    /\ WellFormedShot(last_move.move)

(* the rank-0 stone is the acting team's and closer to the tee than        *)
(* houseRadius + stoneRadius, read from the board: the nearest own stone   *)
(* is near enough and no opponent stone precedes it in the ranking         *)
StoneDistance(stones, team_idx, idx) ==
    LET pos == get_stone_position(stones, team_idx, idx)
    IN  IF pos = None THEN Inf ELSE Hypot(pos[1] - TEE[1], pos[2] - TEE[2])

OwnLead(stones, team) ==
    \E idx \in 0..(NumStones - 1) :
        LET d == StoneDistance(stones, TeamIdx(team), idx)
        IN  /\ d < HOUSE_RADIUS + STONE_RADIUS
            /\ \A o \in 0..(NumStones - 1) :
                 LET e == StoneDistance(stones, 1 - TeamIdx(team), o)
                 IN  IF TeamIdx(team) = 0 THEN d <= e ELSE d < e

ShotsOf(list) ==
    { LET c == list[i]
          vel == estimate_shot_velocity_fcv1_02(c[1], c[2], c[3])
      IN  <<vel.v[1], vel.v[2], c[3]>> : i \in 1..Len(list) }

(* C10, as stated: when the rank-0 stone is the acting team's and lies     *)
(* closer to the tee than houseRadius + stoneRadius, every player's decide *)
(* returns a guard shot.                                                   *)
C10_OwnLeadGuards ==
    (pc = "returned" /\ OwnLead(last_move.state.stones, my_team)) =>
        IF variant = 2 THEN last_move.move \in ShotsOf(GuardList)
        ELSE last_move.move = GUARD_SHOT

(* C10, amended: in that case no player returns a takeout shot (not the    *)
(* speed-3.0 clockwise shot in CurlFighter00, not CENTER_SHOT in           *)
(* CurlFighter01, no shot of the takeout list in CurlFighter02);           *)
(* CurlFighter01 returns GUARD_SHOT, CurlFighter02 a shot of its guard     *)
(* list, and CurlFighter00 returns GUARD_SHOT when the shot counter is odd *)
(* and CENTER_SHOT when it is even.                                        *)
C10_OwnLeadNoTakeout ==
    (pc = "returned" /\ OwnLead(last_move.state.stones, my_team)) =>
        CASE variant = 0 ->
               /\ last_move.move[3] # clockwise
               /\ last_move.move =
                    (IF last_move.state.shot % 2 = 0 THEN CENTER_SHOT
                     ELSE GUARD_SHOT)
          [] variant = 1 ->
               /\ last_move.move = GUARD_SHOT
               /\ last_move.move # CENTER_SHOT
          [] variant = 2 ->
               /\ last_move.move \in ShotsOf(GuardList)
               /\ last_move.move \notin ShotsOf(TakeoutList)

C10_Witness ==
    /\ pc = "returned"
    /\ variant = 0
    /\ OwnLead(last_move.state.stones, my_team)
    /\ \E idx \in 0..(NumStones - 1) :
         StoneDistance(last_move.state.stones, 1 - TeamIdx(my_team), idx)
           < HOUSE_RADIUS
    /\ last_move.state.shot % 2 = 0
    /\ last_move.move = CENTER_SHOT

---------------------------------------------------------------------------
(* sort_stones_by_distance on its own: SpecSort draws a snapshot and ranks *)
(* it.  The snapshots hold absent stones of every kind (a None entry, an   *)
(* empty position list, a point without x, a list that is too short) and   *)
(* stones at equal distances from the tee.                                 *)

SortCoords ==
    {EmptyCoord, NullCoord, HalfPoint(38405), At(0, 38405), At(300, 38405),
     At(-300, 38405), At(180, 38645)}

(* the same snapshot with team 1's list cut to its first entry             *)
ShortList(b) == [team0 |-> b.team0, team1 |-> SubSeq(b.team1, 1, 1)]

SortBoards ==
    Boards(SortThrown, SortCoords)
        \cup {ShortList(b) : b \in Boards(SortThrown, SortCoords)}

SortStones ==
    /\ pc = "sort"
    /\ sorted_refs' = sort_stones_by_distance(state.stones)
    /\ pc' = "sorted"
    /\ UNCHANGED <<variant, my_team, state, candidates, ci, best, best_score,
                   evals, poll, polls, moved, last_move, sim_result, score,
                   v_in, v_out>>

InitSort ==
    /\ pc = "sort"
    /\ variant = 2
    /\ my_team = "team0"
    /\ state \in [stones : SortBoards, shot : {0}]
    /\ IdleDecide /\ IdleLoop /\ IdleScore /\ IdleVel

NextSort == SortStones

SpecSort == InitSort /\ [][NextSort]_vars

EnumPos(r) == r.team * NumStones + r.idx

(* the distance of a ranked stone is right for the board: infinite for an  *)
(* absent stone, else the distance to the tee to the millimetre            *)
RightDistance(stones, r) ==
    LET pos == get_stone_position(stones, r.team, r.idx)
        d2 == (pos[1] - TEE[1]) * (pos[1] - TEE[1])
              + (pos[2] - TEE[2]) * (pos[2] - TEE[2])
    IN  IF pos = None THEN r.distance = Inf
        ELSE /\ r.distance < Inf
             /\ r.distance * r.distance <= d2
             /\ d2 < (r.distance + 1) * (r.distance + 1)

(* C2: the ranking holds each of the 16 stones (team, idx) exactly once,   *)
(* in order of non-decreasing distance to the tee, every absent stone      *)
(* (distance infinite) after every stone in play, and stones of equal      *)
(* distance in the enumeration order team 0 idx 0..7, team 1 idx 0..7.     *)
C2_SortedStableTotal ==
    pc = "sorted" =>
        /\ Len(sorted_refs) = NumTeams * NumStones
        /\ \A team \in 0..(NumTeams - 1), idx \in 0..(NumStones - 1) :
             Cardinality({k \in 1..Len(sorted_refs) :
                            /\ sorted_refs[k].team = team
                            /\ sorted_refs[k].idx = idx}) = 1
        /\ \A k \in 1..Len(sorted_refs) :
             RightDistance(state.stones, sorted_refs[k])
        /\ \A i, j \in 1..Len(sorted_refs) :
             i < j =>
               /\ sorted_refs[i].distance <= sorted_refs[j].distance
               /\ sorted_refs[i].distance = Inf => sorted_refs[j].distance = Inf
               /\ sorted_refs[i].distance = sorted_refs[j].distance =>
                    EnumPos(sorted_refs[i]) < EnumPos(sorted_refs[j])

C2_Witness ==
    /\ pc = "sorted"
    /\ \E i, j \in 1..Len(sorted_refs) :
         /\ i < j
         /\ sorted_refs[i].distance = sorted_refs[j].distance
         /\ sorted_refs[i].distance < Inf
         /\ sorted_refs[i].team # sorted_refs[j].team
    /\ \E i, j \in 1..Len(sorted_refs) :
         /\ i < j
         /\ sorted_refs[i].team = 1
         /\ sorted_refs[j].team = 0
         /\ sorted_refs[j].distance = Inf

---------------------------------------------------------------------------
(* evaluate_shot on its own: SpecScore draws what the simulator returned   *)
(* and scores it.                                                          *)

ScorePoints == {TEE, <<549, 39137>>, <<916, 38405>>, <<0, 36576>>, NaN}

EmptyBoard ==
    [team0 |-> [i \in 1..NumStones |-> EmptyCoord],
     team1 |-> [i \in 1..NumStones |-> EmptyCoord]]

ScoreShot ==
    /\ pc = "score"
    /\ \E flag \in BOOLEAN :
         LET c == EmptyBoardList[1]
             ev == evaluate_shot(state, TeamIdx(my_team), c[1], c[2], c[3],
                                 [result |-> sim_result, flag |-> flag])
         IN  score' = ev.score
    /\ pc' = "scored"
    /\ UNCHANGED <<variant, my_team, state, sorted_refs, candidates, ci, best,
                   best_score, evals, poll, poll, polls, moved, last_move, sim_result,
                   v_in, v_out>>

InitScore ==
    /\ pc = "score"
    /\ variant = 2
    /\ my_team \in Teams
    /\ state = [stones |-> EmptyBoard, shot |-> 0]
    /\ sim_result \in SimResults(ScoreThrown, ScorePoints)
    /\ score = 0
    /\ IdleDecide /\ IdleLoop /\ IdleVel

NextScore == ScoreShot

SpecScore == InitScore /\ [][NextScore]_vars

(* a resting position within houseRadius of the tee, by squares            *)
WithinHouse(p) ==
    /\ p # NaN
    /\ (p[1] - TEE[1]) * (p[1] - TEE[1]) + (p[2] - TEE[2]) * (p[2] - TEE[2])
         <= HOUSE_RADIUS * HOUSE_RADIUS

CountInHouse(result, team_idx) ==
    Cardinality({k \in Slots : /\ (k - 1) \div NumStones = team_idx
                               /\ WithinHouse(result[k])})

(* C4: the score is the number of acting-team stones resting within        *)
(* houseRadius of the tee minus the number of opponent stones within it;   *)
(* a not-a-number position counts for neither side; the score is an        *)
(* integer in [-8, 8].                                                     *)
C4_ScoreIsNetCount ==
    pc = "scored" =>
        /\ score = CountInHouse(sim_result, TeamIdx(my_team))
                   - CountInHouse(sim_result, 1 - TeamIdx(my_team))
        /\ score \in (-NumStones)..NumStones

C4_Witness ==
    /\ pc = "scored"
    /\ \E k \in Slots : sim_result[k] = NaN /\ k \in Thrown(ScoreThrown)
    /\ \E k \in Slots : sim_result[k] = <<549, 39137>>
    /\ \E k \in Slots : sim_result[k] = <<916, 38405>>
    /\ score = -1

---------------------------------------------------------------------------
(* estimate_shot_velocity_fcv1 on its own: SpecVel draws a player and the  *)
(* arguments and makes the call.                                           *)

VelTargets ==
    {TEE, FRONT, BACK, <<0, 0>>, <<300, 38405>>, <<-1000, 38000>>,
     <<0, 9000>>, <<0, 1000>>}

VelSpeeds == {-1000, 0, 50, 51, 1000, 2500, 3000, 4000, 4001, 5000}

EstimateVelocity ==
    /\ pc = "estimate"
    /\ v_out' = estimate_shot_velocity_fcv1(variant, v_in.target,
                                            v_in.target_speed, v_in.rotation)
    /\ pc' = "estimated"
    /\ UNCHANGED <<variant, my_team, state, sorted_refs, candidates, ci, best,
                   best_score, evals, poll, poll, polls, moved, last_move, sim_result,
                   score, v_in>>

InitVel ==
    /\ pc = "estimate"
    /\ variant \in 0..2
    /\ my_team = "team0"
    /\ state = [stones |-> EmptyBoard, shot |-> 0]
    /\ v_in \in [target : VelTargets, target_speed : VelSpeeds,
                 rotation : Rotations]
    /\ v_out = << >>
    /\ IdleDecide /\ IdleLoop /\ IdleScore

NextVel == EstimateVelocity

SpecVel == InitVel /\ [][NextVel]_vars

(* C7: for a desired speed in [0, 4] the call either raises or returns a   *)
(* launch velocity whose magnitude is strictly greater than the desired    *)
(* speed.                                                                  *)
C7_LaunchFasterThanDesired ==
    (/\ pc = "estimated"
     /\ 0 <= v_in.target_speed /\ v_in.target_speed <= 4000
     /\ v_out.kind = "ok")
    => v_out.v[1] * v_out.v[1] + v_out.v[2] * v_out.v[2]
         > v_in.target_speed * v_in.target_speed

(* C8: a call with a desired speed outside [0, 4], or with the target at   *)
(* the sheet origin, raises; it returns no velocity.                       *)
C8_InvalidInputRaises ==
    (/\ pc = "estimated"
     /\ \/ v_in.target_speed < 0
        \/ v_in.target_speed > 4000
        \/ v_in.target = <<0, 0>>)
    => v_out.kind # "ok"

---------------------------------------------------------------------------
(* The polling loop of __main__, the same in the three players.  Each      *)
(* iteration calls cli.update(), whose report (winner, next team, latest   *)
(* state) is the match server's and is drawn here; then it breaks,         *)
(* continues, or calls decide and cli.move().  CurlFighter02's decide      *)
(* takes one step per simulated candidate.                                 *)

LoopSnapshots ==
    [stones : Boards(NumTeams, DecideCoords), shot : 0..MaxShot]

Submitted(st, move) ==
    [state |-> st, move |-> move, winner |-> poll'.winner,
     next_team |-> poll'.next_team]

(* the report names a winner: break                                        *)
PollWinner ==
    /\ pc = "poll"
    /\ polls < MaxPolls
    /\ \E w \in Teams, n \in Teams \cup {NoTeam} :
         poll' = [winner |-> w, next_team |-> n]
    /\ polls' = polls + 1
    /\ pc' = "done"
    /\ last_move' = None
    /\ UNCHANGED <<variant, my_team, state, sorted_refs, candidates, ci, best,
                   best_score, evals, moved, sim_result, score, v_in, v_out>>

(* no winner and the next team is not this player: continue                *)
PollNotMine ==
    /\ pc = "poll"
    /\ polls < MaxPolls
    /\ \E n \in (Teams \cup {NoTeam}) \ {my_team} :
         poll' = [winner |-> NoTeam, next_team |-> n]
    /\ polls' = polls + 1
    /\ last_move' = None
    /\ UNCHANGED <<pc, variant, my_team, state, sorted_refs, candidates, ci,
                   best, best_score, evals, moved, sim_result, score,
                   v_in, v_out>>

(* this player's turn, CurlFighter00 and CurlFighter01: decide, then move  *)
PollDecideMove(v) ==
    /\ pc = "poll"
    /\ variant = v
    /\ polls < MaxPolls
    /\ poll' = [winner |-> NoTeam, next_team |-> my_team]
    /\ polls' = polls + 1
    /\ \E snap \in LoopSnapshots :
         LET d == IF v = 0 THEN decide00(snap, my_team)
                  ELSE decide01(snap, my_team)
         IN  /\ state' = snap
             /\ IF d.kind = "ok"
                THEN /\ last_move' = Submitted(snap, d.move)
                     /\ moved' = Append(moved, snap.shot)
                     /\ pc' = "poll"
                ELSE /\ pc' = "crashed"
                     /\ last_move' = None
                     /\ UNCHANGED moved
    /\ UNCHANGED <<variant, my_team, sorted_refs, candidates, ci, best,
                   best_score, evals, sim_result, score, v_in, v_out>>

(* this player's turn, CurlFighter02: decide begins                        *)
PollDecide02 ==
    /\ pc = "poll"
    /\ variant = 2
    /\ polls < MaxPolls
    /\ poll' = [winner |-> NoTeam, next_team |-> my_team]
    /\ polls' = polls + 1
    /\ \E snap \in LoopSnapshots :
         /\ state' = snap
         /\ sorted_refs' = sort_stones_by_distance(snap.stones)
         /\ candidates' = Candidates(sort_stones_by_distance(snap.stones),
                                     TeamIdx(my_team))
    /\ best' = None
    /\ best_score' = InitialBestScore
    /\ ci' = 1
    /\ pc' = "loop"
    /\ last_move' = None
    /\ UNCHANGED <<variant, my_team, evals, moved, sim_result, score,
                   v_in, v_out>>

(* decide returns best; vx, vy, rot = best raises TypeError for None;      *)
(* else cli.move().  decide's locals end with the call.                    *)
ReturnMove ==
    /\ pc = "loop"
    /\ ci > Len(candidates)
    /\ IF best # None
       THEN /\ last_move' = [state |-> state, move |-> best,
                             winner |-> poll.winner,
                             next_team |-> poll.next_team]
            /\ moved' = Append(moved, state.shot)
            /\ pc' = "poll"
       ELSE /\ pc' = "crashed"
            /\ UNCHANGED <<last_move, moved>>
    /\ sorted_refs' = << >>
    /\ candidates' = << >>
    /\ ci' = 0
    /\ best' = None
    /\ best_score' = 0
    /\ UNCHANGED <<variant, my_team, state, evals, poll, polls, sim_result,
                   score, v_in, v_out>>

InitLoop ==
    /\ pc = "poll"
    /\ variant \in 0..2
    /\ my_team \in Teams
    /\ state = [stones |-> EmptyBoard, shot |-> 0]
    /\ IdleDecide /\ IdleLoop /\ IdleScore /\ IdleVel

NextLoop ==
    \/ PollWinner
    \/ PollNotMine
    \/ PollDecideMove(0)
    \/ PollDecideMove(1)
    \/ PollDecide02
    \/ Evaluate(FALSE)
    \/ ReturnMove

SpecLoop == InitLoop /\ [][NextLoop]_vars

(* C9: decide and the move that follows happen only in an iteration whose  *)
(* update reported no winner and this player as the next team; at most one *)
(* move is submitted for a decision turn (a shot counter), also when a     *)
(* second update still reports this player as next for it; and once a      *)
(* winner is reported the loop has ended.                                  *)
C9_OncePerTurn ==
    /\ last_move # None =>
         /\ last_move.winner = NoTeam
         /\ last_move.next_team = my_team
    /\ \A i, j \in 1..Len(moved) : i < j => moved[i] # moved[j]
    /\ poll.winner # NoTeam => pc = "done"

=============================================================================
